---- MODULE Spec2Model ----
(***************************************************************************)
(* gatepay-sdk: the Gatepay facade (client.ts, kept in                     *)
(* src/examples/payments-callback.ts lines 104-358).                       *)
(*                                                                         *)
(* Objects live on two heaps so that reference identity is visible:        *)
(*   cfgHeap : the Configuration objects ever constructed                  *)
(*   apiHeap : the AccountApi / LinksApi / NetworksApi objects ever        *)
(*             constructed, each holding the reference to the              *)
(*             Configuration it was constructed with                       *)
(* The facade's fields configuration, account, links, networks are         *)
(* references (indices) into these heaps.                                  *)
(*                                                                         *)
(* An async createLink invocation runs to its next await in one step: an   *)
(* action is either the call of createLink (up to the first await) or the  *)
(* arrival of the response of the outstanding remote call (up to the next  *)
(* await, the return or the throw).                                        *)
(***************************************************************************)
EXTENDS Integers, Sequences, FiniteSets, TLC

\* ------------------------------------------------------------------ bounds
\* longest actions list a caller passes to createLink
MaxActions == 2
\* number of updateApiToken / updateBasePath calls in one run
MaxUpdates == 2
\* number of times the timer of a payment monitor fires in one run
MaxTicks == 3

\* ------------------------------------------------------------------ values
\* JavaScript's undefined
Undefined == "<undefined>"
\* the default of the constructor
DefaultBasePath == "https://api.gatepay.cloud"

Tokens == {"t1", "t2"}
BasePaths == {"https://b1", "https://b2"}
ApiKinds == {"account", "links", "networks"}

\* createLink invocations of one run
Invs == {1, 2}

\* JavaScript truthiness of a string-or-undefined value
Truthy(v) == v # Undefined /\ v # ""

\* a || b
OrElse(a, b) == IF Truthy(a) THEN a ELSE b

Last(s) == s[Len(s)]

VARIABLES
    cfgHeap,        \* Seq of Configuration objects [basePath, accessToken]
    apiHeap,        \* Seq of sub-client objects [api, configuration]
    configuration,  \* this.configuration : reference into cfgHeap
    account,        \* this.account  : reference into apiHeap
    links,          \* this.links    : reference into apiHeap
    networks,       \* this.networks : reference into apiHeap
    ctorOptions,    \* the GatepayClientOptions the facade was constructed with
    updates,        \* the update calls made so far: Seq of [op, arg]
    captured,       \* handles the caller took from the facade and kept
    lastCall,       \* the last operation the caller issued directly on a handle
    inv,            \* the createLink invocations
    server,         \* the remote service
    monitor         \* the payment monitor of monitorLinkPayments

vars == <<cfgHeap, apiHeap, configuration, account, links, networks,
          ctorOptions, updates, captured, lastCall, inv, server, monitor>>

facadeVars == <<cfgHeap, apiHeap, configuration, account, links, networks,
                ctorOptions, updates>>

\* ------------------------------------------------- Configuration, sub-clients
\* new Configuration({basePath, accessToken}): the object holds the two values
NewConfiguration(basePath, accessToken) ==
    [basePath |-> basePath, accessToken |-> accessToken]

\* new AccountApi(c) / new LinksApi(c) / new NetworksApi(c): the sub-client
\* keeps the reference to the Configuration it was constructed with
NewApi(kind, cfgRef) == [api |-> kind, configuration |-> cfgRef]

\* what a sub-client sends with a request: the base address and the credential
\* of the Configuration it holds, read at call time
Credentials(h) ==
    [basePath    |-> cfgHeap[apiHeap[h].configuration].basePath,
     accessToken |-> cfgHeap[apiHeap[h].configuration].accessToken]

\* ------------------------------------------------------------ the facade
\* mutant: the constructor passes options.basePath on without the default
Constructed_NoDefault(options) ==
    /\ cfgHeap = <<NewConfiguration(options.basePath, options.apiToken)>>
    /\ configuration = 1
    /\ apiHeap = <<NewApi("account", 1), NewApi("links", 1), NewApi("networks", 1)>>
    /\ account = 1
    /\ links = 2
    /\ networks = 3
    /\ ctorOptions = options

\* constructor(options): one Configuration, three sub-clients on it
Constructed(options) ==
    /\ cfgHeap = <<NewConfiguration(OrElse(options.basePath, DefaultBasePath),
                                    options.apiToken)>>
    /\ configuration = 1
    /\ apiHeap = <<NewApi("account", 1), NewApi("links", 1), NewApi("networks", 1)>>
    /\ account = 1
    /\ links = 2
    /\ networks = 3
    /\ ctorOptions = options

\* the sub-client objects a fresh trio occupies on the heap
RebindAll(cfgRef) ==
    /\ apiHeap' = apiHeap \o <<NewApi("account", cfgRef), NewApi("links", cfgRef),
                               NewApi("networks", cfgRef)>>
    /\ account' = Len(apiHeap) + 1
    /\ links' = Len(apiHeap) + 2
    /\ networks' = Len(apiHeap) + 3

\* mutant: the networks field is left bound to the old sub-client
UpdateApiToken_NetworksKept(apiToken) ==
    /\ Len(updates) < MaxUpdates
    /\ cfgHeap' = Append(cfgHeap,
                         NewConfiguration(cfgHeap[configuration].basePath, apiToken))
    /\ configuration' = Len(cfgHeap) + 1
    /\ apiHeap' = apiHeap \o <<NewApi("account", Len(cfgHeap) + 1),
                               NewApi("links", Len(cfgHeap) + 1)>>
    /\ account' = Len(apiHeap) + 1
    /\ links' = Len(apiHeap) + 2
    /\ networks' = networks
    /\ updates' = Append(updates, [op |-> "updateApiToken", arg |-> apiToken])
    /\ UNCHANGED <<ctorOptions, captured, lastCall, inv, server, monitor>>

\* mutant: the token is written into the current Configuration object, which
\* the old and the new sub-clients share
UpdateApiToken_InPlace(apiToken) ==
    /\ Len(updates) < MaxUpdates
    /\ cfgHeap' = [cfgHeap EXCEPT ![configuration].accessToken = apiToken]
    /\ configuration' = configuration
    /\ RebindAll(configuration)
    /\ updates' = Append(updates, [op |-> "updateApiToken", arg |-> apiToken])
    /\ UNCHANGED <<ctorOptions, captured, lastCall, inv, server, monitor>>

\* updateApiToken(apiToken)
UpdateApiToken(apiToken) ==
    /\ Len(updates) < MaxUpdates
    /\ cfgHeap' = Append(cfgHeap,
                         NewConfiguration(cfgHeap[configuration].basePath, apiToken))
    /\ configuration' = Len(cfgHeap) + 1
    /\ RebindAll(Len(cfgHeap) + 1)
    /\ updates' = Append(updates, [op |-> "updateApiToken", arg |-> apiToken])
    /\ UNCHANGED <<ctorOptions, captured, lastCall, inv, server, monitor>>

\* mutant: the new Configuration is built without the current credential
UpdateBasePath_TokenLost(basePath) ==
    /\ Len(updates) < MaxUpdates
    /\ cfgHeap' = Append(cfgHeap, NewConfiguration(basePath, Undefined))
    /\ configuration' = Len(cfgHeap) + 1
    /\ RebindAll(Len(cfgHeap) + 1)
    /\ updates' = Append(updates, [op |-> "updateBasePath", arg |-> basePath])
    /\ UNCHANGED <<ctorOptions, captured, lastCall, inv, server, monitor>>

\* mutant: the base path is written into the current Configuration object
UpdateBasePath_InPlace(basePath) ==
    /\ Len(updates) < MaxUpdates
    /\ cfgHeap' = [cfgHeap EXCEPT ![configuration].basePath = basePath]
    /\ configuration' = configuration
    /\ RebindAll(configuration)
    /\ updates' = Append(updates, [op |-> "updateBasePath", arg |-> basePath])
    /\ UNCHANGED <<ctorOptions, captured, lastCall, inv, server, monitor>>

\* mutant: the new Configuration is handed to the sub-clients but not stored in
\* this.configuration
UpdateBasePath_NotStored(basePath) ==
    /\ Len(updates) < MaxUpdates
    /\ cfgHeap' = Append(cfgHeap,
                         NewConfiguration(basePath, cfgHeap[configuration].accessToken))
    /\ configuration' = configuration
    /\ RebindAll(Len(cfgHeap) + 1)
    /\ updates' = Append(updates, [op |-> "updateBasePath", arg |-> basePath])
    /\ UNCHANGED <<ctorOptions, captured, lastCall, inv, server, monitor>>

\* updateBasePath(basePath)
UpdateBasePath(basePath) ==
    /\ Len(updates) < MaxUpdates
    /\ cfgHeap' = Append(cfgHeap,
                         NewConfiguration(basePath, cfgHeap[configuration].accessToken))
    /\ configuration' = Len(cfgHeap) + 1
    /\ RebindAll(Len(cfgHeap) + 1)
    /\ updates' = Append(updates, [op |-> "updateBasePath", arg |-> basePath])
    /\ UNCHANGED <<ctorOptions, captured, lastCall, inv, server, monitor>>

\* mutant: the Configuration built by the constructor is returned
getConfiguration_Constructed == cfgHeap[1]

\* getConfiguration()
getConfiguration == cfgHeap[configuration]

\* the facade's field of a kind: gatepay.account, gatepay.links, gatepay.networks
Handle(kind) ==
    CASE kind = "account" -> account
      [] kind = "links" -> links
      [] kind = "networks" -> networks

\* ------------------------------------------------------------ the caller
\* at: how many updates had been made when the operation was issued
NoCall == [via |-> "none", api |-> "none", handle |-> 0,
           basePath |-> Undefined, accessToken |-> Undefined, at |-> 0]

\* const h = gatepay.<kind>: the caller keeps the handle; the credential and
\* base address the handle uses at that moment are noted with it
Capture(kind) ==
    /\ captured = {}
    /\ captured' = {[handle |-> Handle(kind), api |-> kind,
                     basePath |-> Credentials(Handle(kind)).basePath,
                     accessToken |-> Credentials(Handle(kind)).accessToken,
                     at |-> Len(updates)]}
    /\ UNCHANGED <<facadeVars, lastCall, inv, server, monitor>>

\* gatepay.<kind>.<operation>(...): an operation issued through the facade's field
CallViaFacade(kind) ==
    /\ lastCall' = [via |-> "facade", api |-> kind, handle |-> Handle(kind),
                    basePath |-> Credentials(Handle(kind)).basePath,
                    accessToken |-> Credentials(Handle(kind)).accessToken,
                    at |-> Len(updates)]
    /\ UNCHANGED <<facadeVars, captured, inv, server, monitor>>

\* h.<operation>(...): an operation issued through a handle taken earlier
CallViaCaptured(c) ==
    /\ c \in captured
    /\ lastCall' = [via |-> "captured", api |-> c.api, handle |-> c.handle,
                    basePath |-> Credentials(c.handle).basePath,
                    accessToken |-> Credentials(c.handle).accessToken,
                    at |-> Len(updates)]
    /\ UNCHANGED <<facadeVars, captured, inv, server, monitor>>


\* --------------------------------------------------------- createLink inputs
TollValues == {"toll1"}
ResourceValues == {"res1"}
ActionValues == {"A", "B"}

\* an optional array: undefined, or the array's items
NoArray == [defined |-> FALSE, items |-> <<>>]
Array(items) == [defined |-> TRUE, items |-> items]

SeqsUpTo(S, n) == UNION {[1..k -> S] : k \in 0..n}

\* CreateLinkOptions: the PostLinksRequest fields plus toll, resource, actions
CreateLinkOptions ==
    [name : {"n1"}, alias : {"a1"}, description : {Undefined},
     status : {"active"}, type : {"permanent"},
     toll : {Undefined} \cup TollValues,
     resource : {Undefined} \cup ResourceValues,
     actions : {NoArray} \cup {Array(a) : a \in SeqsUpTo(ActionValues, MaxActions)}]

\* values a failing remote call throws: an Error carrying the HTTP status, and
\* a value that is not an Error instance
\* cause: the error an Error was constructed from (<<>> when it has none)
ThrownValues ==
    {[isError |-> TRUE, message |-> "Response returned an error code", status |-> "500",
      cause |-> <<>>],
     [isError |-> FALSE, message |-> Undefined, status |-> "503", cause |-> <<>>]}

NoError == [isError |-> FALSE, message |-> Undefined, status |-> Undefined,
            cause |-> <<>>]

\* new Error(message)
NewError(message) ==
    [isError |-> TRUE, message |-> message, status |-> Undefined, cause |-> <<>>]

NoLink == [uuid |-> Undefined]

\* ------------------------------------------------------------ the remote service
\* The service keeps one row per Link, with the sub-resources attached to it.
UuidNames == <<"u1", "u2">>

\* what the uuid field of a link-creation response can hold
ResponseUuids == {UuidNames[k] : k \in 1..Len(UuidNames)} \cup {Undefined, ""}

RowOf(uuid) == CHOOSE k \in 1..Len(server) : server[k].uuid = uuid

\* the Link the service returns for a uuid: the row plus the derived url
LinkView(row) ==
    [uuid |-> row.uuid, name |-> row.request.name, alias |-> row.request.alias,
     url |-> "https://gatepay.link/" \o row.uuid,
     toll |-> row.toll, resource |-> row.resource, actions |-> row.actions]

\* -------------------------------------------------------------- createLink
\* calls: the remote calls issued so far; outcomes: how those that have
\* returned ended ("ok" or "failed"), in the same order; error: what the
\* invocation rejected with
NoOptions == [name |-> Undefined, alias |-> Undefined, description |-> Undefined,
              status |-> Undefined, type |-> Undefined, toll |-> Undefined,
              resource |-> Undefined, actions |-> NoArray]

Idle == [pc |-> "idle", options |-> NoOptions, createdLink |-> NoLink,
         linkUuid |-> Undefined, i |-> 0, calls |-> <<>>, outcomes |-> <<>>,
         result |-> NoLink, error |-> NoError, caught |-> NoError]

\* the outstanding call has returned
Returned(r) == [r EXCEPT !.outcomes = Append(@, "ok")]

NoRequest == [name |-> Undefined]

\* mutant: the invocation keeps the sub-client of its first call for all its calls
Issue_FirstHandleKept(r, op, request, body) ==
    LET h == IF r.calls = <<>> THEN links ELSE r.calls[1].handle
    IN [r EXCEPT !.pc = op,
                 !.calls = Append(@, [op |-> op, linkUuid |-> r.linkUuid,
                                      postLinksRequest |-> request, body |-> body,
                                      handle |-> h,
                                      configuration |-> apiHeap[h].configuration,
                                      basePath |-> Credentials(h).basePath,
                                      accessToken |-> Credentials(h).accessToken,
                                      at |-> Len(updates)])]

\* mutant: the uuid is kept in a field all invocations share, so a call is
\* scoped to the Link created last
Issue_SharedUuid(r, op, request, body) ==
    [r EXCEPT !.pc = op,
              !.calls = Append(@, [op |-> op,
                                   linkUuid |-> IF Len(server) > 0 /\ op # "postLinks"
                                                THEN server[Len(server)].uuid
                                                ELSE r.linkUuid,
                                   postLinksRequest |-> request, body |-> body,
                                   handle |-> links,
                                   configuration |-> apiHeap[links].configuration,
                                   basePath |-> Credentials(links).basePath,
                                   accessToken |-> Credentials(links).accessToken,
                                   at |-> Len(updates)])]

\* this.links.<op>(...): the request leaves through the sub-client that
\* this.links refers to when the call is made
Issue(r, op, request, body) ==
    [r EXCEPT !.pc = op,
              !.calls = Append(@, [op |-> op, linkUuid |-> r.linkUuid,
                                   postLinksRequest |-> request, body |-> body,
                                   handle |-> links,
                                   configuration |-> apiHeap[links].configuration,
                                   basePath |-> Credentials(links).basePath,
                                   accessToken |-> Credentials(links).accessToken,
                                   at |-> Len(updates)])]

\* Step 5: fetch the complete link
FromStep5(r) == Issue(r, "getLinksByUuidOrAlias", NoRequest, r.linkUuid)

\* mutant: the loop walks the list from its end
NextAction_Reversed(r) ==
    IF r.i < Len(r.options.actions.items)
    THEN Issue([r EXCEPT !.i = r.i + 1], "postLinksByLinkUuidActions", NoRequest,
               r.options.actions.items[Len(r.options.actions.items) - r.i])
    ELSE FromStep5(r)

\* for (const action of options.actions): the next iteration, or step 5
NextAction(r) ==
    IF r.i < Len(r.options.actions.items)
    THEN Issue([r EXCEPT !.i = r.i + 1], "postLinksByLinkUuidActions", NoRequest,
               r.options.actions.items[r.i + 1])
    ELSE FromStep5(r)

\* mutant: an empty list is submitted as one action call without action
FromStep4_EmptyListPosted(r) ==
    IF r.options.actions.defined
    THEN IF Len(r.options.actions.items) > 0
         THEN NextAction([r EXCEPT !.i = 0])
         ELSE Issue(r, "postLinksByLinkUuidActions", NoRequest, Undefined)
    ELSE FromStep5(r)

\* Step 4: if (options.actions && options.actions.length > 0)
FromStep4(r) ==
    IF r.options.actions.defined /\ Len(r.options.actions.items) > 0
    THEN NextAction([r EXCEPT !.i = 0])
    ELSE FromStep5(r)

\* mutant: the resource is submitted whether or not one was supplied
FromStep3_Unconditional(r) ==
    Issue(r, "postLinksByLinkUuidResources", NoRequest, r.options.resource)

\* Step 3: if (options.resource)
FromStep3(r) ==
    IF Truthy(r.options.resource)
    THEN Issue(r, "postLinksByLinkUuidResources", NoRequest, r.options.resource)
    ELSE FromStep4(r)

\* mutant: the toll call is not awaited, the resource call leaves at once
FromStep2_NotAwaited(r) ==
    IF Truthy(r.options.toll)
    THEN FromStep3(Issue(r, "postLinksByLinkUuidTolls", NoRequest, r.options.toll))
    ELSE FromStep3(r)

\* mutant: the toll is never submitted
FromStep2_TollSkipped(r) == FromStep3(r)

\* Step 2: if (options.toll)
FromStep2(r) ==
    IF Truthy(r.options.toll)
    THEN Issue(r, "postLinksByLinkUuidTolls", NoRequest, r.options.toll)
    ELSE FromStep3(r)

\* mutant: the rejection is never delivered, the promise stays pending
Catch_NeverSettles(r, error) ==
    [r EXCEPT !.pc = "pending", !.caught = error]

\* mutant: the message names the operation that was being awaited
Catch_NamesStep(r, error) ==
    [r EXCEPT !.pc = "rejected",
              !.caught = error,
              !.error = NewError("Failed to create link (" \o r.pc \o "): " \o
                                 (IF error.isError THEN error.message
                                                   ELSE "Unknown error"))]

\* mutant: the caught value is rethrown as it is
Catch_Unwrapped(r, error) ==
    [r EXCEPT !.pc = "rejected", !.caught = error, !.error = error]

\* mutant: a caught value that is not an Error is put into the message
Catch_Stringified(r, error) ==
    [r EXCEPT !.pc = "rejected",
              !.caught = error,
              !.error = NewError("Failed to create link: " \o
                                 (IF error.isError THEN error.message
                                                   ELSE error.status))]

\* catch (error) { throw new Error(`Failed to create link: ${...}`) }
\* caught: the value the catch block received
Catch(r, error) ==
    [r EXCEPT !.pc = "rejected",
              !.caught = error,
              !.error = NewError("Failed to create link: " \o
                                 (IF error.isError THEN error.message
                                                   ELSE "Unknown error"))]

\* mutant: the toll is left in the request
PostLinksRequestOf_TollKept(options) ==
    [options EXCEPT !.resource = Undefined, !.actions = NoArray]

\* { ...options, toll: undefined, resource: undefined, actions: undefined }
PostLinksRequestOf(options) ==
    [options EXCEPT !.toll = Undefined, !.resource = Undefined, !.actions = NoArray]

\* mutant: createLink first rebinds this.links to a sub-client of its own
CreateLink_Rebinds(p, options) ==
    /\ inv[p].pc = "idle"
    /\ apiHeap' = Append(apiHeap, NewApi("links", configuration))
    /\ links' = Len(apiHeap) + 1
    /\ inv' = [inv EXCEPT ![p] =
                 Issue([Idle EXCEPT !.options = options], "postLinks", PostLinksRequestOf(options), Undefined)]
    /\ UNCHANGED <<cfgHeap, configuration, account, networks, ctorOptions, updates,
                   captured, lastCall, server, monitor>>

\* createLink(options), up to the first await
CreateLink(p, options) ==
    /\ inv[p].pc = "idle"
    /\ inv' = [inv EXCEPT ![p] =
                 Issue([Idle EXCEPT !.options = options], "postLinks", PostLinksRequestOf(options), Undefined)]
    /\ UNCHANGED <<facadeVars, captured, lastCall, server, monitor>>

\* mutant: the response's uuid is used without the check
PostLinksReturns_Unchecked(p, responseUuid) ==
    /\ inv[p].pc = "postLinks"
    /\ Len(server) < Len(UuidNames)
    /\ LET uuid == UuidNames[Len(server) + 1]
           r == [Returned(inv[p]) EXCEPT !.createdLink = [uuid |-> responseUuid]]
       IN /\ responseUuid \in {uuid, Undefined, ""}
          /\ server' = Append(server,
                              [uuid |-> uuid, request |-> Last(inv[p].calls).postLinksRequest,
                               toll |-> Undefined, resource |-> Undefined, actions |-> <<>>])
          /\ inv' = [inv EXCEPT ![p] = FromStep2([r EXCEPT !.linkUuid = r.createdLink.uuid])]
    /\ UNCHANGED <<facadeVars, captured, lastCall, monitor>>

\* mutant: a response without uuid is reported as the error of a failed request
PostLinksReturns_AsTransportError(p, responseUuid) ==
    /\ inv[p].pc = "postLinks"
    /\ Len(server) < Len(UuidNames)
    /\ LET uuid == UuidNames[Len(server) + 1]
           r == [Returned(inv[p]) EXCEPT !.createdLink = [uuid |-> responseUuid]]
       IN /\ responseUuid \in {uuid, Undefined, ""}
          /\ server' = Append(server,
                              [uuid |-> uuid, request |-> Last(inv[p].calls).postLinksRequest,
                               toll |-> Undefined, resource |-> Undefined, actions |-> <<>>])
          /\ inv' = [inv EXCEPT ![p] =
                       IF ~Truthy(responseUuid)
                       THEN Catch(r, NewError("Response returned an error code"))
                       ELSE FromStep2([r EXCEPT !.linkUuid = r.createdLink.uuid])]
    /\ UNCHANGED <<facadeVars, captured, lastCall, monitor>>

\* mutant: the no-UUID error reaches the caller as thrown, past the catch block
PostLinksReturns_ThrownUnwrapped(p, responseUuid) ==
    /\ inv[p].pc = "postLinks"
    /\ Len(server) < Len(UuidNames)
    /\ LET uuid == UuidNames[Len(server) + 1]
           r == [Returned(inv[p]) EXCEPT !.createdLink = [uuid |-> responseUuid]]
       IN /\ responseUuid \in {uuid, Undefined, ""}
          /\ server' = Append(server,
                              [uuid |-> uuid, request |-> Last(inv[p].calls).postLinksRequest,
                               toll |-> Undefined, resource |-> Undefined, actions |-> <<>>])
          /\ inv' = [inv EXCEPT ![p] =
                       IF ~Truthy(responseUuid)
                       THEN [r EXCEPT !.pc = "rejected",
                                      !.error = NewError("Failed to create link: no UUID returned")]
                       ELSE FromStep2([r EXCEPT !.linkUuid = r.createdLink.uuid])]
    /\ UNCHANGED <<facadeVars, captured, lastCall, monitor>>

\* the link-creation call returns; responseUuid is the uuid of its response
PostLinksReturns(p, responseUuid) ==
    /\ inv[p].pc = "postLinks"
    /\ Len(server) < Len(UuidNames)
    /\ LET uuid == UuidNames[Len(server) + 1]
           r == [Returned(inv[p]) EXCEPT !.createdLink = [uuid |-> responseUuid]]
       IN /\ responseUuid \in {uuid, Undefined, ""}
          /\ server' = Append(server,
                              [uuid |-> uuid, request |-> Last(inv[p].calls).postLinksRequest,
                               toll |-> Undefined, resource |-> Undefined, actions |-> <<>>])
          /\ inv' = [inv EXCEPT ![p] =
                       IF ~Truthy(responseUuid)
                       THEN Catch(r, NewError("Failed to create link: no UUID returned"))
                       ELSE FromStep2([r EXCEPT !.linkUuid = r.createdLink.uuid])]
    /\ UNCHANGED <<facadeVars, captured, lastCall, monitor>>

\* the toll call returns
TollsReturns(p) ==
    /\ inv[p].pc = "postLinksByLinkUuidTolls"
    /\ server' = [server EXCEPT ![RowOf(Last(inv[p].calls).linkUuid)].toll =
                                   Last(inv[p].calls).body]
    /\ inv' = [inv EXCEPT ![p] = FromStep3(Returned(inv[p]))]
    /\ UNCHANGED <<facadeVars, captured, lastCall, monitor>>

\* the resource call returns
ResourcesReturns(p) ==
    /\ inv[p].pc = "postLinksByLinkUuidResources"
    /\ server' = [server EXCEPT ![RowOf(Last(inv[p].calls).linkUuid)].resource =
                                   Last(inv[p].calls).body]
    /\ inv' = [inv EXCEPT ![p] = FromStep4(Returned(inv[p]))]
    /\ UNCHANGED <<facadeVars, captured, lastCall, monitor>>

\* an action call returns
ActionsReturns(p) ==
    /\ inv[p].pc = "postLinksByLinkUuidActions"
    /\ server' = [server EXCEPT ![RowOf(Last(inv[p].calls).linkUuid)].actions =
                                   Append(@, Last(inv[p].calls).body)]
    /\ inv' = [inv EXCEPT ![p] = NextAction(Returned(inv[p]))]
    /\ UNCHANGED <<facadeVars, captured, lastCall, monitor>>

\* mutant: the creation response is returned instead of the read-back response
GetReturns_CreationEchoed(p) ==
    /\ inv[p].pc = "getLinksByUuidOrAlias"
    /\ inv' = [inv EXCEPT ![p] =
                 [Returned(@) EXCEPT !.pc = "resolved", !.result = inv[p].createdLink]]
    /\ UNCHANGED <<facadeVars, captured, lastCall, server, monitor>>

\* the read-back call returns: return completeLink
GetReturns(p) ==
    /\ inv[p].pc = "getLinksByUuidOrAlias"
    /\ inv' = [inv EXCEPT ![p] =
                 [Returned(@) EXCEPT !.pc = "resolved",
                           !.result = LinkView(server[RowOf(Last(inv[p].calls).body)])]]
    /\ UNCHANGED <<facadeVars, captured, lastCall, server, monitor>>

\* the operations of the calls an invocation has issued, in order
Ops(p) == [k \in 1..Len(inv[p].calls) |-> inv[p].calls[k].op]

CountOp(p, op) == Cardinality({k \in 1..Len(inv[p].calls) : inv[p].calls[k].op = op})

AwaitingPcs == {"postLinks", "postLinksByLinkUuidTolls", "postLinksByLinkUuidResources",
                "postLinksByLinkUuidActions", "getLinksByUuidOrAlias"}

\* mutant: a failed toll call is swallowed and the orchestration goes on
RemoteCallFails_TollSwallowed(p, thrown) ==
    /\ inv[p].pc \in AwaitingPcs
    /\ inv' = [inv EXCEPT ![p] =
                 IF inv[p].pc = "postLinksByLinkUuidTolls"
                 THEN FromStep3([inv[p] EXCEPT !.outcomes = Append(@, "failed")])
                 ELSE Catch([inv[p] EXCEPT !.outcomes = Append(@, "failed")], thrown)]
    /\ UNCHANGED <<facadeVars, captured, lastCall, server, monitor>>

\* mutant: a failed read-back is swallowed and the creation response returned
RemoteCallFails_ReadBackSwallowed(p, thrown) ==
    /\ inv[p].pc \in AwaitingPcs
    /\ inv' = [inv EXCEPT ![p] =
                 IF inv[p].pc = "getLinksByUuidOrAlias"
                 THEN [inv[p] EXCEPT !.outcomes = Append(@, "failed"),
                                     !.pc = "resolved", !.result = inv[p].createdLink]
                 ELSE Catch([inv[p] EXCEPT !.outcomes = Append(@, "failed")], thrown)]
    /\ UNCHANGED <<facadeVars, captured, lastCall, server, monitor>>

\* mutant: a failed call is issued once more before giving up
RemoteCallFails_Retried(p, thrown) ==
    /\ inv[p].pc \in AwaitingPcs
    /\ inv' = [inv EXCEPT ![p] =
                 IF CountOp(p, inv[p].pc) = 1
                 THEN [inv[p] EXCEPT !.outcomes = Append(@, "failed"),
                                     !.calls = Append(@, Last(inv[p].calls))]
                 ELSE Catch([inv[p] EXCEPT !.outcomes = Append(@, "failed")], thrown)]
    /\ UNCHANGED <<facadeVars, captured, lastCall, server, monitor>>

\* mutant: on a failure the Link created in step 1 is deleted again
RemoteCallFails_RolledBack(p, thrown) ==
    /\ inv[p].pc \in AwaitingPcs
    /\ inv' = [inv EXCEPT ![p] =
                 Catch([inv[p] EXCEPT !.outcomes = Append(@, "failed")], thrown)]
    /\ server' = SelectSeq(server, LAMBDA row : row.uuid # inv[p].linkUuid)
    /\ UNCHANGED <<facadeVars, captured, lastCall, monitor>>

\* mutant: when the read-back fails the actions attached to the Link are removed
RemoteCallFails_ReadBackUndoes(p, thrown) ==
    /\ inv[p].pc \in AwaitingPcs
    /\ inv' = [inv EXCEPT ![p] =
                 Catch([inv[p] EXCEPT !.outcomes = Append(@, "failed")], thrown)]
    /\ server' = IF inv[p].pc = "getLinksByUuidOrAlias"
                 THEN [server EXCEPT ![RowOf(inv[p].linkUuid)].actions = <<>>]
                 ELSE server
    /\ UNCHANGED <<facadeVars, captured, lastCall, monitor>>

\* the outstanding remote call fails with a thrown value; the service is left
\* as it was
RemoteCallFails(p, thrown) ==
    /\ inv[p].pc \in AwaitingPcs
    /\ inv' = [inv EXCEPT ![p] =
                 Catch([inv[p] EXCEPT !.outcomes = Append(@, "failed")], thrown)]
    /\ UNCHANGED <<facadeVars, captured, lastCall, server, monitor>>

\* ------------------------------------------------------ monitorLinkPayments
\* (README, "Payment monitoring": src/README.md lines 597-707)
\* A timer callback runs to its next await in one step. pollInterval is the
\* timer: "none" before monitorLinkPayments is called, "set" while the interval
\* timer runs, "cleared" after clearInterval. callbacks[k] is the k-th run of
\* the timer callback; found counts the onPaymentFound invocations per payment
\* uuid, threw holds the uuids whose onPaymentFound threw, errors counts the
\* onError invocations, stopped tells that the returned stop function was called.
PaymentUuids == {"p1", "p2"}

\* response.payments of a polling response
PaymentResponses ==
    {NoArray, Array(<<"p1">>), Array(<<"p1", "p2">>), Array(<<"p2", "p2">>)}

\* the maxPolls option
MaxPollsValues == {0, 1, 2}

NoMonitor ==
    [pollInterval |-> "none", maxPolls |-> 0, pollCount |-> 0, seenPayments |-> {},
     callbacks |-> <<>>, found |-> [u \in PaymentUuids |-> 0], threw |-> {},
     errors |-> 0, stopped |-> FALSE]

NewCallback == [pc |-> "polling", newPayments |-> <<>>, i |-> 0]

\* monitorLinkPayments(linkUuid, {maxPolls, onPaymentFound, onError})
MonitorLinkPayments(maxPolls) ==
    /\ monitor.pollInterval = "none"
    /\ monitor' = [monitor EXCEPT !.pollInterval = "set", !.maxPolls = maxPolls,
                                  !.pollCount = 0, !.seenPayments = {}]
    /\ UNCHANGED <<facadeVars, captured, lastCall, inv, server>>

\* the interval timer fires: pollCount++ and the polling request leaves; the
\* timer does not wait for the callbacks that are still running
Tick ==
    /\ monitor.pollInterval = "set"
    /\ monitor.pollCount < MaxTicks
    /\ monitor' = [monitor EXCEPT !.pollCount = @ + 1,
                                  !.callbacks = Append(@, NewCallback)]
    /\ UNCHANGED <<facadeVars, captured, lastCall, inv, server>>

\* payments.filter(...): the payments whose uuid is not in seenPayments, each
\* uuid added to seenPayments as it is met
NewPayments(payments, seenPayments) ==
    LET keep == {k \in 1..Len(payments) :
                    /\ payments[k] \notin seenPayments
                    /\ \A j \in 1..(k - 1) : payments[j] # payments[k]}
        Pick[k \in 0..Len(payments)] ==
            IF k = 0 THEN <<>>
            ELSE IF k \in keep THEN Append(Pick[k - 1], payments[k]) ELSE Pick[k - 1]
    IN Pick[Len(payments)]

\* mutant: the timer is never cleared by a callback
EndOfCallback_NeverClears(m, k) ==
    [m EXCEPT !.callbacks[k] = [pc |-> "done", newPayments |-> <<>>, i |-> 0]]

\* if (pollCount >= maxPolls) clearInterval(pollInterval); the callback is over
EndOfCallback(m, k) ==
    [m EXCEPT !.callbacks[k] = [pc |-> "done", newPayments |-> <<>>, i |-> 0],
              !.pollInterval = IF m.pollCount >= m.maxPolls THEN "cleared" ELSE @]

\* for (const payment of newPayments): onPaymentFound of the next new payment
\* is called, or the loop is over
NextPayment(m, k) ==
    IF m.callbacks[k].i < Len(m.callbacks[k].newPayments)
    THEN [m EXCEPT !.callbacks[k].pc = "onPaymentFound",
                   !.callbacks[k].i = @ + 1,
                   !.found[m.callbacks[k].newPayments[m.callbacks[k].i + 1]] = @ + 1]
    ELSE EndOfCallback(m, k)

\* mutant: the uuids of the new payments are not added to seenPayments
PollReturns_SeenNotRecorded(k, payments) ==
    /\ k \in 1..Len(monitor.callbacks)
    /\ monitor.callbacks[k].pc = "polling"
    /\ monitor' =
           NextPayment([monitor EXCEPT
                            !.callbacks[k].newPayments =
                                NewPayments(payments.items, monitor.seenPayments)],
                       k)
    /\ UNCHANGED <<facadeVars, captured, lastCall, inv, server>>

\* the polling request of callback k returns
PollReturns(k, payments) ==
    /\ k \in 1..Len(monitor.callbacks)
    /\ monitor.callbacks[k].pc = "polling"
    /\ monitor' =
           NextPayment([monitor EXCEPT
                            !.callbacks[k].newPayments =
                                NewPayments(payments.items, monitor.seenPayments),
                            !.seenPayments =
                                @ \cup {payments.items[j] : j \in 1..Len(payments.items)}],
                       k)
    /\ UNCHANGED <<facadeVars, captured, lastCall, inv, server>>

\* mutant: an exception of onPaymentFound reaches the outer catch: the other
\* new payments are skipped and onError is called
OnPaymentFoundReturns_ThrowPropagates(k, thrown) ==
    /\ k \in 1..Len(monitor.callbacks)
    /\ monitor.callbacks[k].pc = "onPaymentFound"
    /\ monitor' =
           IF thrown
           THEN [monitor EXCEPT
                     !.threw = @ \cup {monitor.callbacks[k].newPayments[
                                           monitor.callbacks[k].i]},
                     !.callbacks[k].pc = "onError", !.errors = @ + 1]
           ELSE NextPayment(monitor, k)
    /\ UNCHANGED <<facadeVars, captured, lastCall, inv, server>>

\* await onPaymentFound(payment) is over: it returned, or it threw and the
\* inner catch logged the exception
OnPaymentFoundReturns(k, thrown) ==
    /\ k \in 1..Len(monitor.callbacks)
    /\ monitor.callbacks[k].pc = "onPaymentFound"
    /\ monitor' =
           NextPayment([monitor EXCEPT
                            !.threw = IF thrown
                                      THEN @ \cup {monitor.callbacks[k].newPayments[
                                                       monitor.callbacks[k].i]}
                                      ELSE @],
                       k)
    /\ UNCHANGED <<facadeVars, captured, lastCall, inv, server>>

\* the polling request of callback k fails: catch (error), onError(error)
PollFails(k) ==
    /\ k \in 1..Len(monitor.callbacks)
    /\ monitor.callbacks[k].pc = "polling"
    /\ monitor' = [monitor EXCEPT !.callbacks[k].pc = "onError", !.errors = @ + 1]
    /\ UNCHANGED <<facadeVars, captured, lastCall, inv, server>>

\* await onError(error) is over, whether it returned or threw
OnErrorReturns(k) ==
    /\ k \in 1..Len(monitor.callbacks)
    /\ monitor.callbacks[k].pc = "onError"
    /\ monitor' = EndOfCallback(monitor, k)
    /\ UNCHANGED <<facadeVars, captured, lastCall, inv, server>>

\* the function monitorLinkPayments returned is called
Stop ==
    /\ monitor.pollInterval # "none"
    /\ ~monitor.stopped
    /\ monitor' = [monitor EXCEPT !.pollInterval = "cleared", !.stopped = TRUE]
    /\ UNCHANGED <<facadeVars, captured, lastCall, inv, server>>

\* --------------------------------------------------------- specifications
\* an input with link fields only
LinkFieldsOnly(options) ==
    /\ options.toll = Undefined
    /\ options.resource = Undefined
    /\ options.actions = NoArray

\* GatepayClientOptions: apiToken is a string, basePath an optional string;
\* the empty string is a value of both
CtorOptions == [apiToken : {"t1", ""}, basePath : {Undefined, "", "https://b1"}]

InitCommon ==
    /\ updates = <<>>
    /\ captured = {}
    /\ lastCall = NoCall
    /\ inv = [p \in Invs |-> Idle]
    /\ server = <<>>
    /\ monitor = NoMonitor

\* one createLink invocation, with the credential rotated and the base address
\* switched at any moment, also while the invocation is suspended on a remote call
RotatedTokens == {"t2"}
SwitchedBasePaths == {"https://b2"}

Init ==
    /\ Constructed([apiToken |-> "t1", basePath |-> Undefined])
    /\ InitCommon

Next ==
    \/ \E options \in CreateLinkOptions : CreateLink(1, options)
    \/ \E u \in ResponseUuids : PostLinksReturns(1, u)
    \/ TollsReturns(1)
    \/ ResourcesReturns(1)
    \/ ActionsReturns(1)
    \/ GetReturns(1)
    \/ \E thrown \in ThrownValues : RemoteCallFails(1, thrown)
    \/ \E t \in RotatedTokens : UpdateApiToken(t)
    \/ \E b \in SwitchedBasePaths : UpdateBasePath(b)

Spec == Init /\ [][Next]_vars

\* the facade and its caller: updates, handles taken and kept, direct operations
InitFacade ==
    /\ \E options \in CtorOptions : Constructed(options)
    /\ InitCommon

NextFacade ==
    \/ \E t \in Tokens \cup {""} : UpdateApiToken(t)
    \/ \E b \in BasePaths \cup {""} : UpdateBasePath(b)
    \/ \E k \in ApiKinds : Capture(k)
    \/ \E k \in ApiKinds : CallViaFacade(k)
    \/ \E c \in captured : CallViaCaptured(c)

SpecFacade == InitFacade /\ [][NextFacade]_vars

\* two createLink invocations issued concurrently on one facade: their steps
\* interleave in every order
ConcurrentOptions ==
    {o \in CreateLinkOptions :
        o.actions \in {NoArray, Array(<<>>), Array(<<"A">>), Array(<<"A", "B">>)}}

NextConcurrent ==
    \E p \in Invs :
        \/ \E options \in ConcurrentOptions : CreateLink(p, options)
        \/ \E u \in ResponseUuids : PostLinksReturns(p, u)
        \/ TollsReturns(p)
        \/ ResourcesReturns(p)
        \/ ActionsReturns(p)
        \/ GetReturns(p)
        \/ \E thrown \in ThrownValues : RemoteCallFails(p, thrown)

SpecConcurrent == Init /\ [][NextConcurrent]_vars

\* createLink invocations and configuration updates interleaved, every remote
\* call eventually answered: the response of the outstanding call of an
\* invocation arrives, as a success or as a failure
\* the first invocation is given every part, the second link fields only
InterleavedOptions(p) ==
    {o \in CreateLinkOptions :
        IF p = 1
        THEN o.toll = "toll1" /\ o.resource = "res1" /\ o.actions = Array(<<"A">>)
        ELSE LinkFieldsOnly(o)}

\* the responses of the service: a uuid or none, and a failed request
InterleavedUuids == ResponseUuids \ {""}
InterleavedThrown == {thrown \in ThrownValues : thrown.isError}

Responds(p) ==
    \/ \E u \in InterleavedUuids : PostLinksReturns(p, u)
    \/ TollsReturns(p)
    \/ ResourcesReturns(p)
    \/ ActionsReturns(p)
    \/ GetReturns(p)
    \/ \E thrown \in InterleavedThrown : RemoteCallFails(p, thrown)

NextInterleaved ==
    \/ \E p \in Invs : \E options \in InterleavedOptions(p) : CreateLink(p, options)
    \/ \E p \in Invs : \E u \in InterleavedUuids : PostLinksReturns(p, u)
    \/ \E p \in Invs : TollsReturns(p)
    \/ \E p \in Invs : ResourcesReturns(p)
    \/ \E p \in Invs : ActionsReturns(p)
    \/ \E p \in Invs : GetReturns(p)
    \/ \E p \in Invs : \E thrown \in InterleavedThrown : RemoteCallFails(p, thrown)
    \/ \E t \in RotatedTokens : UpdateApiToken(t)
    \/ \E b \in SwitchedBasePaths : UpdateBasePath(b)

SpecInterleaved ==
    /\ Init
    /\ [][NextInterleaved]_vars
    /\ \A p \in Invs : WF_vars(Responds(p))

\* one payment monitor; the timer fires whether or not earlier callbacks have
\* finished
NextMonitor ==
    \/ \E maxPolls \in MaxPollsValues : MonitorLinkPayments(maxPolls)
    \/ Tick
    \/ \E k \in 1..MaxTicks : \E payments \in PaymentResponses : PollReturns(k, payments)
    \/ \E k \in 1..MaxTicks : \E thrown \in BOOLEAN : OnPaymentFoundReturns(k, thrown)
    \/ \E k \in 1..MaxTicks : PollFails(k)
    \/ \E k \in 1..MaxTicks : OnErrorReturns(k)
    \/ Stop

SpecMonitor == Init /\ [][NextMonitor]_vars

\* the same with the timer firing as long as it is set and every polling
\* request and every callback eventually over
Completes(k) ==
    \/ \E payments \in PaymentResponses : PollReturns(k, payments)
    \/ \E thrown \in BOOLEAN : OnPaymentFoundReturns(k, thrown)
    \/ PollFails(k)
    \/ OnErrorReturns(k)

SpecMonitorLive ==
    /\ Init
    /\ [][NextMonitor]_vars
    /\ WF_vars(Tick)
    /\ \A k \in 1..MaxTicks : WF_vars(Completes(k))

\* ------------------------------------------------------- claims: createLink
Started(p) == inv[p].pc # "idle"
Finished(p) == inv[p].pc \in {"resolved", "rejected"}

\* the positions of the action calls among the calls of an invocation
ActionCallPositions(p) ==
    {k \in 1..Len(inv[p].calls) : inv[p].calls[k].op = "postLinksByLinkUuidActions"}

AllOk(p) == \A k \in 1..Len(inv[p].outcomes) : inv[p].outcomes[k] = "ok"

\* the call at position k of invocation p has returned a failure
FailedAt(p, k) == k <= Len(inv[p].outcomes) /\ inv[p].outcomes[k] = "failed"

\* C1: a createLink whose input carries link fields only and whose remote calls
\* all succeed issues exactly one link-creation call, no toll, resource or
\* action call and exactly one read-back call, and resolves with a Link that
\* has the uuid the link-creation call returned.
C1_LinkOnlyTwoCalls ==
    \A p \in Invs :
        (Started(p) /\ LinkFieldsOnly(inv[p].options)) =>
            /\ \A k \in 1..Len(inv[p].calls) :
                   inv[p].calls[k].op \in {"postLinks", "getLinksByUuidOrAlias"}
            /\ (Finished(p) /\ AllOk(p) /\ Truthy(inv[p].createdLink.uuid)) =>
                   /\ inv[p].pc = "resolved"
                   /\ Ops(p) = <<"postLinks", "getLinksByUuidOrAlias">>
                   /\ inv[p].result.uuid = inv[p].createdLink.uuid

C1_Witness ==
    /\ inv[1].pc = "resolved"
    /\ LinkFieldsOnly(inv[1].options)
    /\ inv[1].result.uuid = "u1"

\* C2: when the link-creation call returns a response with no uuid or an empty
\* uuid, createLink rejects with the no-UUID error and has issued no call other
\* than the link-creation call, whatever toll, resource and actions were given.
EndsWith(str, suffix) ==
    /\ Len(str) >= Len(suffix)
    /\ SubSeq(str, Len(str) - Len(suffix) + 1, Len(str)) = suffix

C2_NoUuidStops ==
    \A p \in Invs :
        (Len(inv[p].outcomes) >= 1 /\ inv[p].outcomes[1] = "ok"
            /\ ~Truthy(inv[p].createdLink.uuid)) =>
            /\ inv[p].pc = "rejected"
            /\ Ops(p) = <<"postLinks">>
            /\ inv[p].error.isError
            /\ EndsWith(inv[p].error.message, "no UUID returned")

C2_Witness ==
    /\ inv[1].pc = "rejected"
    /\ inv[1].outcomes = <<"ok">>
    /\ inv[1].createdLink.uuid = ""
    /\ inv[1].options.toll # Undefined
    /\ inv[1].options.resource # Undefined
    /\ inv[1].options.actions = Array(<<"A", "B">>)

\* C3: when the toll call fails, createLink rejects having issued exactly the
\* link-creation call and the toll call: no resource, action or read-back call
\* is made, and the link-creation call has completed (its Link is on the
\* service).
C3_TollFailureStops ==
    \A p \in Invs :
        (Len(inv[p].calls) >= 2 /\ inv[p].calls[2].op = "postLinksByLinkUuidTolls"
            /\ FailedAt(p, 2)) =>
            /\ inv[p].pc = "rejected"
            /\ Ops(p) = <<"postLinks", "postLinksByLinkUuidTolls">>
            /\ inv[p].outcomes = <<"ok", "failed">>
            /\ \E k \in 1..Len(server) : server[k].uuid = inv[p].linkUuid

C3_Witness ==
    /\ inv[1].pc = "rejected"
    /\ Ops(1) = <<"postLinks", "postLinksByLinkUuidTolls">>
    /\ FailedAt(1, 2)
    /\ inv[1].options.resource # Undefined
    /\ inv[1].options.actions = Array(<<"A", "B">>)

\* C4: the actions are submitted one at a time in list order: the action calls
\* issued so far carry the first items of the list, in order; when the call for
\* the i-th action fails exactly the first i actions have been submitted, the
\* later ones never are, and no read-back call is made.
ActionBodies(p) ==
    LET calls == SelectSeq(inv[p].calls,
                           LAMBDA c : c.op = "postLinksByLinkUuidActions")
    IN [k \in 1..Len(calls) |-> calls[k].body]

C4_ActionsInOrderShortCircuit ==
    \A p \in Invs :
        Started(p) =>
            /\ Len(ActionBodies(p)) <= Len(inv[p].options.actions.items)
            /\ ActionBodies(p) =
                   SubSeq(inv[p].options.actions.items, 1, Len(ActionBodies(p)))
            /\ \A k \in ActionCallPositions(p) :
                   FailedAt(p, k) =>
                       /\ k = Len(inv[p].calls)
                       /\ inv[p].pc = "rejected"
                       /\ CountOp(p, "getLinksByUuidOrAlias") = 0

C4_Witness ==
    /\ inv[1].options.actions = Array(<<"A", "B">>)
    /\ ActionBodies(1) = <<"A">>
    /\ FailedAt(1, Len(inv[1].calls))
    /\ inv[1].pc = "rejected"

\* C5: the remote calls of one invocation are strictly sequential in the order
\* link-creation, toll, resource, actions, read-back: at most one call is
\* outstanding, every earlier call has returned successfully before the next is
\* issued, and no call of a later step precedes a call of an earlier step.
StepOf(op) ==
    CASE op = "postLinks" -> 1
      [] op = "postLinksByLinkUuidTolls" -> 2
      [] op = "postLinksByLinkUuidResources" -> 3
      [] op = "postLinksByLinkUuidActions" -> 4
      [] op = "getLinksByUuidOrAlias" -> 5

C5_StrictlySequential ==
    \A p \in Invs :
        /\ Len(inv[p].calls) - Len(inv[p].outcomes) \in {0, 1}
        /\ Len(inv[p].calls) - Len(inv[p].outcomes) = 1 <=> inv[p].pc \in AwaitingPcs
        /\ Len(inv[p].calls) >= 1 => inv[p].calls[1].op = "postLinks"
        /\ \A k \in 1..(Len(inv[p].calls) - 1) :
               /\ inv[p].outcomes[k] = "ok"
               /\ \/ StepOf(inv[p].calls[k].op) < StepOf(inv[p].calls[k + 1].op)
                  \/ /\ inv[p].calls[k].op = "postLinksByLinkUuidActions"
                     /\ inv[p].calls[k + 1].op = "postLinksByLinkUuidActions"

C5_Witness ==
    /\ inv[1].pc = "getLinksByUuidOrAlias"
    /\ Ops(1) = <<"postLinks", "postLinksByLinkUuidTolls", "postLinksByLinkUuidResources",
                  "postLinksByLinkUuidActions", "postLinksByLinkUuidActions",
                  "getLinksByUuidOrAlias">>

\* C6: a failure is terminal for its invocation: once a remote call has failed
\* the invocation is rejected and that call is the last it ever issued (no later
\* step, no retry, no cleanup call); every request is issued at most once: one
\* link-creation, at most one toll, one resource and one read-back call, and at
\* most one call per item of the actions list.
C6_FailureTerminalNoRetry ==
    \A p \in Invs :
        Started(p) =>
            /\ \A k \in 1..Len(inv[p].calls) :
                   FailedAt(p, k) => (k = Len(inv[p].calls) /\ inv[p].pc = "rejected")
            /\ CountOp(p, "postLinks") = 1
            /\ CountOp(p, "postLinksByLinkUuidTolls") <= 1
            /\ CountOp(p, "postLinksByLinkUuidResources") <= 1
            /\ CountOp(p, "getLinksByUuidOrAlias") <= 1
            /\ CountOp(p, "postLinksByLinkUuidActions") <= Len(inv[p].options.actions.items)
            /\ \A k \in 1..Len(inv[p].calls) : inv[p].calls[k].op \in AwaitingPcs

C6_Witness ==
    /\ inv[1].pc = "rejected"
    /\ Ops(1) = <<"postLinks", "postLinksByLinkUuidTolls", "postLinksByLinkUuidResources">>
    /\ FailedAt(1, 3)
    /\ inv[1].options.actions = Array(<<"A", "A">>)

\* C7: createLink is not transactional: after it has rejected because the toll
\* call, the resource call or an action call failed, the Link created in step 1
\* is still on the service together with every sub-resource the earlier
\* successful calls of the invocation attached to it.
OkCallOf(p, op) ==
    \E k \in 1..Len(inv[p].outcomes) :
        inv[p].calls[k].op = op /\ inv[p].outcomes[k] = "ok"

OkActionBodies(p) ==
    LET n == Cardinality({k \in ActionCallPositions(p) :
                              k <= Len(inv[p].outcomes) /\ inv[p].outcomes[k] = "ok"})
    IN SubSeq(ActionBodies(p), 1, n)

FailedInSteps2To4(p) ==
    /\ inv[p].pc = "rejected"
    /\ Last(inv[p].outcomes) = "failed"
    /\ Last(inv[p].calls).op \in {"postLinksByLinkUuidTolls",
                                  "postLinksByLinkUuidResources",
                                  "postLinksByLinkUuidActions"}

C7_NoRollback ==
    \A p \in Invs :
        FailedInSteps2To4(p) =>
            \E k \in 1..Len(server) :
                /\ server[k].uuid = inv[p].linkUuid
                /\ server[k].request = PostLinksRequestOf(inv[p].options)
                /\ OkCallOf(p, "postLinksByLinkUuidTolls") =>
                       server[k].toll = inv[p].options.toll
                /\ OkCallOf(p, "postLinksByLinkUuidResources") =>
                       server[k].resource = inv[p].options.resource
                /\ server[k].actions = OkActionBodies(p)

C7_Witness ==
    /\ FailedInSteps2To4(1)
    /\ Len(updates) = MaxUpdates
    /\ inv[1].outcomes = <<"ok", "ok", "ok", "ok", "failed">>
    /\ \E k \in 1..Len(server) :
           /\ server[k].toll = "toll1"
           /\ server[k].resource = "res1"
           /\ server[k].actions = <<"A">>

\* ------------------------------------------------- claims: the configuration
\* the update calls of one operation among the first n updates
UpdatesOf(op, n) == {k \in 1..n : updates[k].op = op}

\* the argument of the last such update among the first n
LastArg(op, n) ==
    updates[CHOOSE k \in UpdatesOf(op, n) : \A j \in UpdatesOf(op, n) : j <= k].arg

\* C8: an operation issued through the facade's account, links or networks
\* field after updateApiToken(t) has returned uses credential t of the last such
\* update, and after updateBasePath(b) uses base address b of the last such
\* update, for each of the three sub-clients and after any sequence of updates.
C8_FacadeHandlesUseNewValue ==
    lastCall.via = "facade" =>
        /\ UpdatesOf("updateApiToken", lastCall.at) # {} =>
               lastCall.accessToken = LastArg("updateApiToken", lastCall.at)
        /\ UpdatesOf("updateBasePath", lastCall.at) # {} =>
               lastCall.basePath = LastArg("updateBasePath", lastCall.at)

C8_Witness ==
    /\ lastCall.via = "facade"
    /\ lastCall.api = "networks"
    /\ lastCall.at = 2
    /\ updates = <<[op |-> "updateBasePath", arg |-> "https://b2"],
                   [op |-> "updateApiToken", arg |-> "t2"]>>
    /\ ctorOptions.apiToken = "t1"
    /\ lastCall.accessToken = "t2"

\* C9: a handle the caller took from the facade before an update, invoked after
\* any number of later updates, uses the credential and the base address it
\* used when it was taken.
C9_CapturedHandleKeepsOldValue ==
    lastCall.via = "captured" =>
        \A c \in captured :
            c.handle = lastCall.handle =>
                /\ lastCall.accessToken = c.accessToken
                /\ lastCall.basePath = c.basePath

C9_Witness ==
    /\ lastCall.via = "captured"
    /\ \E c \in captured : c.handle = lastCall.handle /\ lastCall.at = c.at + 2
    /\ lastCall.accessToken # getConfiguration.accessToken
    /\ lastCall.basePath # getConfiguration.basePath

\* the credential and base address the facade is documented to hold after its
\* first n updates
ExpectedToken(n) ==
    IF UpdatesOf("updateApiToken", n) # {} THEN LastArg("updateApiToken", n)
    ELSE ctorOptions.apiToken

ExpectedBasePath(n) ==
    IF UpdatesOf("updateBasePath", n) # {} THEN LastArg("updateBasePath", n)
    ELSE OrElse(ctorOptions.basePath, DefaultBasePath)

\* C10 as stated: every remote call of a createLink invocation uses the
\* credential and base address that were current when the invocation started
\* (those of its first call), also when an update ran in between.
C10_Original ==
    \A p \in Invs :
        \A k \in 1..Len(inv[p].calls) :
            /\ inv[p].calls[k].accessToken = inv[p].calls[1].accessToken
            /\ inv[p].calls[k].basePath = inv[p].calls[1].basePath

\* C10 (amended): each remote call of a createLink invocation uses the
\* Configuration that is current when that call is issued: calls issued
\* before an update went out with the old credential and base address, the
\* calls the same invocation issues after the update use the new ones.
C10_CallUsesConfigurationCurrentAtIssue ==
    \A p \in Invs :
        \A k \in 1..Len(inv[p].calls) :
            /\ inv[p].calls[k].accessToken = ExpectedToken(inv[p].calls[k].at)
            /\ inv[p].calls[k].basePath = ExpectedBasePath(inv[p].calls[k].at)

C10_Witness ==
    /\ Len(inv[1].calls) >= 3
    /\ inv[1].calls[1].at = 0
    /\ inv[1].calls[2].at = 1
    /\ inv[1].calls[3].at = 2
    /\ inv[1].calls[1].accessToken = "t1"
    /\ inv[1].calls[3].accessToken = "t2"
    /\ inv[1].calls[1].basePath = DefaultBasePath
    /\ inv[1].calls[3].basePath = "https://b2"

\* ------------------------------------------- claims: concurrency, results, errors
\* C11: two createLink invocations running concurrently do not interact: every
\* toll, resource, action and read-back call of an invocation is scoped to the
\* uuid its own link-creation call returned, never to the uuid of the other
\* invocation, and the two invocations hold different uuids.
ScopedCalls(p) ==
    {k \in 1..Len(inv[p].calls) : inv[p].calls[k].op # "postLinks"}

C11_ConcurrentInvocationsIndependent ==
    \A p \in Invs :
        /\ \A k \in ScopedCalls(p) :
               /\ Truthy(inv[p].createdLink.uuid)
               /\ IF inv[p].calls[k].op = "getLinksByUuidOrAlias"
                  THEN inv[p].calls[k].body = inv[p].createdLink.uuid
                  ELSE inv[p].calls[k].linkUuid = inv[p].createdLink.uuid
               /\ \A q \in Invs \ {p} :
                      inv[p].calls[k].linkUuid # inv[q].createdLink.uuid
        /\ \A q \in Invs \ {p} :
               Truthy(inv[p].createdLink.uuid) =>
                   inv[p].createdLink.uuid # inv[q].createdLink.uuid

C11_Witness ==
    /\ inv[1].pc = "postLinksByLinkUuidActions"
    /\ inv[2].pc = "postLinksByLinkUuidResources"
    /\ inv[1].createdLink.uuid = "u2"
    /\ inv[2].createdLink.uuid = "u1"
    /\ Len(inv[1].calls) = 4

\* C12: when createLink resolves, its value is the response of its read-back
\* call: the Link as the service holds it (the server-derived url and the toll,
\* resource and actions attached in steps 2-4), not the creation response, so a
\* fetch of the same uuid with the service unchanged returns the same value.
C12_ResultIsReadBack ==
    \A p \in Invs :
        inv[p].pc = "resolved" =>
            /\ Last(inv[p].calls).op = "getLinksByUuidOrAlias"
            /\ inv[p].result = LinkView(server[RowOf(Last(inv[p].calls).body)])
            /\ inv[p].result # inv[p].createdLink
            /\ inv[p].result.uuid = inv[p].linkUuid
            /\ inv[p].result.toll = inv[p].options.toll
            /\ inv[p].result.resource = inv[p].options.resource
            /\ inv[p].result.actions = inv[p].options.actions.items

C12_Witness ==
    /\ inv[1].pc = "resolved"
    /\ inv[1].result.url = "https://gatepay.link/u1"
    /\ inv[1].result.toll = "toll1"
    /\ inv[1].result.resource = "res1"
    /\ inv[1].result.actions = <<"B", "A">>

\* the invocation rejected because a remote call failed
RejectedByRemoteFailure(p) ==
    inv[p].pc = "rejected" /\ Last(inv[p].outcomes) = "failed"

\* C13: when a remote call inside createLink fails, the original error is
\* reachable from the error createLink rejects with: the rejection carries the
\* caught value as its cause, or at least the HTTP status the caught value
\* carries.
C13_CauseReachable ==
    \A p \in Invs :
        RejectedByRemoteFailure(p) =>
            \/ inv[p].error.cause = <<inv[p].caught>>
            \/ inv[p].error.status = inv[p].caught.status

\* C14: a failure of a remote call is never swallowed: createLink resolves only
\* when every call it issued returned successfully, and is rejected whenever
\* one of them failed.
C14_FailureNeverSwallowed ==
    \A p \in Invs :
        /\ inv[p].pc = "resolved" =>
               /\ Len(inv[p].outcomes) = Len(inv[p].calls)
               /\ AllOk(p)
        /\ (\E k \in 1..Len(inv[p].outcomes) : FailedAt(p, k)) =>
               /\ inv[p].pc = "rejected"
               /\ inv[p].error.isError

C14_Witness ==
    /\ inv[1].pc = "rejected"
    /\ inv[1].outcomes = <<"ok", "ok", "ok", "ok", "ok", "failed">>
    /\ Last(inv[1].calls).op = "getLinksByUuidOrAlias"

\* C15 as stated: the rejection identifies the step that failed: two
\* invocations that failed in different steps with the same underlying error
\* are rejected with distinguishable errors.
C15_Original ==
    \A p, q \in Invs :
        (RejectedByRemoteFailure(p) /\ RejectedByRemoteFailure(q)
            /\ inv[p].caught = inv[q].caught
            /\ Last(inv[p].calls).op # Last(inv[q].calls).op) =>
            inv[p].error # inv[q].error

\* C15 (amended): the rejection identifies only that link creation failed, not
\* the step: invocations that caught the same value are rejected with the same
\* error, whichever steps they failed in.
C15_SameErrorWhateverStep ==
    \A p, q \in Invs :
        (inv[p].pc = "rejected" /\ inv[q].pc = "rejected"
            /\ inv[p].caught = inv[q].caught) =>
            inv[p].error = inv[q].error

C15_Witness ==
    /\ RejectedByRemoteFailure(1)
    /\ RejectedByRemoteFailure(2)
    /\ inv[1].caught = inv[2].caught
    /\ Last(inv[1].calls).op = "postLinksByLinkUuidTolls"
    /\ Last(inv[2].calls).op = "getLinksByUuidOrAlias"

\* ------------------------------------------- claims: the Configuration object
\* C16 as stated: a facade constructed without basePath has the documented
\* production address, a facade constructed with a basePath has that basePath.
C16_Original ==
    Len(updates) = 0 =>
        getConfiguration.basePath =
            IF ctorOptions.basePath = Undefined THEN "https://api.gatepay.cloud"
            ELSE ctorOptions.basePath

\* C16 (amended): a facade constructed without basePath, or with the empty
\* string as basePath, has the documented production address
\* https://api.gatepay.cloud; a facade constructed with a non-empty basePath has
\* that basePath.
C16_DefaultBasePath ==
    Len(updates) = 0 =>
        getConfiguration.basePath =
            IF ctorOptions.basePath \in {Undefined, ""} THEN "https://api.gatepay.cloud"
            ELSE ctorOptions.basePath

C16_Witness ==
    /\ Len(updates) = 0
    /\ ctorOptions.basePath = Undefined
    /\ lastCall.via = "facade"
    /\ lastCall.basePath = "https://api.gatepay.cloud"

\* C17: updateApiToken(t) installs a new Configuration with credential t and
\* the base address of the current one; updateBasePath(b) installs a new
\* Configuration with base address b and the credential of the current one;
\* each binds account, links and networks to three fresh sub-clients built on
\* that new Configuration.
C17_UpdateChangesOneField ==
    [][Len(updates') = Len(updates) + 1 =>
           /\ Last(updates').op = "updateApiToken" =>
                  /\ cfgHeap'[configuration'].accessToken = Last(updates').arg
                  /\ cfgHeap'[configuration'].basePath = cfgHeap[configuration].basePath
           /\ Last(updates').op = "updateBasePath" =>
                  /\ cfgHeap'[configuration'].basePath = Last(updates').arg
                  /\ cfgHeap'[configuration'].accessToken =
                         cfgHeap[configuration].accessToken
           /\ configuration' \notin 1..Len(cfgHeap)
           /\ {account', links', networks'} \cap (1..Len(apiHeap)) = {}
           /\ apiHeap'[account'] = NewApi("account", configuration')
           /\ apiHeap'[links'] = NewApi("links", configuration')
           /\ apiHeap'[networks'] = NewApi("networks", configuration')]_vars

C17_Witness ==
    /\ ctorOptions = [apiToken |-> "t1", basePath |-> "https://b1"]
    /\ updates = <<[op |-> "updateBasePath", arg |-> "https://b2"],
                   [op |-> "updateApiToken", arg |-> "t2"]>>
    /\ cfgHeap = <<[basePath |-> "https://b1", accessToken |-> "t1"],
                   [basePath |-> "https://b2", accessToken |-> "t1"],
                   [basePath |-> "https://b2", accessToken |-> "t2"]>>
    /\ account = 7 /\ links = 8 /\ networks = 9

\* C18: getConfiguration() returns the Configuration installed last: its
\* credential is the argument of the last updateApiToken, or the constructor's
\* token when there was none; its basePath is the argument of the last
\* updateBasePath, or the constructor's (or the default) address when there
\* was none.
C18_GetConfigurationIsLatest ==
    /\ getConfiguration.accessToken = ExpectedToken(Len(updates))
    /\ getConfiguration.basePath = ExpectedBasePath(Len(updates))

C18_Witness ==
    /\ ctorOptions = [apiToken |-> "t1", basePath |-> Undefined]
    /\ updates = <<[op |-> "updateApiToken", arg |-> "t2"],
                   [op |-> "updateApiToken", arg |-> "t1"]>>
    /\ getConfiguration = [basePath |-> "https://api.gatepay.cloud", accessToken |-> "t1"]

\* C19: a Configuration is never written after it was created: every
\* Configuration object, and every sub-client's reference to its Configuration,
\* is the same after any step of updateApiToken, updateBasePath or createLink;
\* an update only adds a new Configuration.
C19_ConfigurationImmutable ==
    [][/\ Len(cfgHeap') >= Len(cfgHeap)
       /\ \A c \in 1..Len(cfgHeap) : cfgHeap'[c] = cfgHeap[c]
       /\ Len(apiHeap') >= Len(apiHeap)
       /\ \A h \in 1..Len(apiHeap) : apiHeap'[h] = apiHeap[h]]_vars

C19_Witness ==
    /\ inv[1].pc = "resolved"
    /\ inv[1].calls[1].at = 0
    /\ Last(inv[1].calls).at = 2
    /\ cfgHeap = <<[basePath |-> "https://api.gatepay.cloud", accessToken |-> "t1"],
                   [basePath |-> "https://b2", accessToken |-> "t1"],
                   [basePath |-> "https://b2", accessToken |-> "t2"]>>

\* C20: in every reachable state the facade's current Configuration has a
\* non-empty base address and a non-empty credential.
C20_BothFieldsNonEmpty ==
    /\ Truthy(getConfiguration.basePath)
    /\ Truthy(getConfiguration.accessToken)

\* ------------------------------------------- claims: the request, the wrapping
\* C21: the link-creation request of createLink, its first call, carries the
\* name, alias, description, status and type of the input unchanged and no
\* toll, resource or actions value, whatever the input supplied for these; no
\* other call carries a link-creation request.
C21_RequestIsInputWithoutSubResources ==
    \A p \in Invs :
        Started(p) =>
            /\ inv[p].calls[1].op = "postLinks"
            /\ inv[p].calls[1].postLinksRequest.name = inv[p].options.name
            /\ inv[p].calls[1].postLinksRequest.alias = inv[p].options.alias
            /\ inv[p].calls[1].postLinksRequest.description = inv[p].options.description
            /\ inv[p].calls[1].postLinksRequest.status = inv[p].options.status
            /\ inv[p].calls[1].postLinksRequest.type = inv[p].options.type
            /\ inv[p].calls[1].postLinksRequest.toll = Undefined
            /\ inv[p].calls[1].postLinksRequest.resource = Undefined
            /\ inv[p].calls[1].postLinksRequest.actions = NoArray
            /\ \A k \in 2..Len(inv[p].calls) : inv[p].calls[k].postLinksRequest = NoRequest

C21_Witness ==
    /\ inv[1].pc = "postLinks"
    /\ inv[1].options.toll = "toll1"
    /\ inv[1].options.resource = "res1"
    /\ inv[1].options.actions = Array(<<"A", "B">>)
    /\ inv[1].calls[1].postLinksRequest.name = "n1"
    /\ inv[1].calls[1].postLinksRequest.alias = "a1"

StartsWith(str, prefix) ==
    /\ Len(str) >= Len(prefix)
    /\ SubSeq(str, 1, Len(prefix)) = prefix

\* the invocation rejected because the call of one of these operations failed
FailedIn(p, ops) ==
    /\ RejectedByRemoteFailure(p)
    /\ Last(inv[p].calls).op \in ops

\* C22: when the toll call, the resource call, an action call or the read-back
\* call fails, createLink rejects with a new Error whose message is "Failed to
\* create link: " followed by the message of the error the call failed with,
\* in the same form whichever of these calls failed.
C22_UniformWrapping ==
    \A p \in Invs :
        FailedIn(p, AwaitingPcs \ {"postLinks"}) =>
            /\ inv[p].error.isError
            /\ StartsWith(inv[p].error.message, "Failed to create link: ")
            /\ inv[p].caught.isError =>
                   inv[p].error.message = "Failed to create link: " \o inv[p].caught.message

C22_Witness ==
    /\ FailedIn(1, {"postLinksByLinkUuidActions"})
    /\ Len(inv[1].calls) = 5
    /\ inv[1].caught.message = "Response returned an error code"
    /\ inv[1].error.message = "Failed to create link: Response returned an error code"

\* the invocation rejected because its link-creation call returned a response
\* without uuid
RejectedForMissingUuid(p) ==
    /\ inv[p].pc = "rejected"
    /\ inv[p].outcomes = <<"ok">>
    /\ ~Truthy(inv[p].createdLink.uuid)

\* C23: the error createLink rejects with when the link-creation call returned
\* no uuid differs from the error it rejects with when the link-creation call
\* itself failed, whatever that call failed with; and the link-creation call
\* was issued once, not retried.
C23_MissingUuidDistinctFromTransport ==
    \A p \in Invs :
        RejectedForMissingUuid(p) =>
            /\ Ops(p) = <<"postLinks">>
            /\ \A q \in Invs \ {p} :
                   FailedIn(q, {"postLinks"}) => inv[p].error # inv[q].error

C23_Witness ==
    /\ RejectedForMissingUuid(1)
    /\ inv[1].createdLink.uuid = Undefined
    /\ FailedIn(2, {"postLinks"})
    /\ inv[2].caught.isError

\* C24: no step of a createLink invocation, successful or failed, changes the
\* facade's current Configuration or the bindings of its account, links and
\* networks fields; a step that changes them is an updateApiToken or
\* updateBasePath call.
C24_CreateLinkLeavesFacadeUnchanged ==
    [][/\ inv' # inv =>
              /\ configuration' = configuration
              /\ cfgHeap'[configuration'] = cfgHeap[configuration]
              /\ account' = account
              /\ links' = links
              /\ networks' = networks
              /\ apiHeap' = apiHeap
       /\ <<configuration', account', links', networks'>> #
              <<configuration, account, links, networks>> =>
              /\ Len(updates') = Len(updates) + 1
              /\ inv' = inv]_vars

C24_Witness ==
    /\ inv[1].pc = "rejected"
    /\ Len(inv[1].calls) = 4
    /\ inv[1].calls[1].at = 0
    /\ inv[1].calls[4].at = 1
    /\ Len(updates) = 1
    /\ configuration = 2
    /\ <<account, links, networks>> = <<4, 5, 6>>

\* ------------------------------------------------- claims: the calls issued
\* 1 when the optional value was supplied, 0 otherwise
Supplied(v) == IF Truthy(v) THEN 1 ELSE 0

Trace(p) ==
    [k \in 1..Len(inv[p].calls) |->
        [op |-> inv[p].calls[k].op,
         postLinksRequest |-> inv[p].calls[k].postLinksRequest,
         body |-> IF inv[p].calls[k].op = "getLinksByUuidOrAlias"
                  THEN inv[p].calls[k].body = inv[p].linkUuid
                  ELSE inv[p].calls[k].body,
         scoped |-> inv[p].calls[k].linkUuid = inv[p].linkUuid]]

\* the resolved Link without the fields the service derives from the uuid
ResultOf(p) ==
    IF inv[p].pc = "resolved"
    THEN [name |-> inv[p].result.name, alias |-> inv[p].result.alias,
          toll |-> inv[p].result.toll, resource |-> inv[p].result.resource,
          actions |-> inv[p].result.actions,
          ownUuid |-> inv[p].result.uuid = inv[p].linkUuid]
    ELSE [name |-> Undefined, alias |-> Undefined, toll |-> Undefined,
          resource |-> Undefined, actions |-> <<>>, ownUuid |-> FALSE]

\* the remote service answered the calls of p and of q alike
SameResponses(p, q) ==
    /\ inv[p].outcomes = inv[q].outcomes
    /\ Truthy(inv[p].createdLink.uuid) = Truthy(inv[q].createdLink.uuid)
    /\ inv[p].caught = inv[q].caught

\* C26: createLink called with the empty list as actions behaves as createLink
\* called with the same input without actions: it issues no action call, and
\* when the service answers alike the two invocations have the same call trace,
\* are at the same point and have the same result or the same error.
C26_EmptyActionsAsAbsent ==
    \A p, q \in Invs :
        (/\ Started(p) /\ Started(q)
         /\ inv[p].options.actions = Array(<<>>)
         /\ inv[q].options = [inv[p].options EXCEPT !.actions = NoArray]) =>
            /\ CountOp(p, "postLinksByLinkUuidActions") = 0
            /\ SameResponses(p, q) =>
                   /\ Trace(p) = Trace(q)
                   /\ inv[p].pc = inv[q].pc
                   /\ ResultOf(p) = ResultOf(q)
                   /\ inv[p].error = inv[q].error

C26_Witness ==
    /\ inv[1].options.actions = Array(<<>>)
    /\ inv[2].options = [inv[1].options EXCEPT !.actions = NoArray]
    /\ inv[1].options.toll = "toll1"
    /\ inv[1].options.resource = "res1"
    /\ inv[1].pc = "resolved"
    /\ inv[2].pc = "resolved"
    /\ Len(inv[1].calls) = 4

\* C27: when only the read-back call fails, createLink rejects while the
\* service holds the Link with the request's fields and every toll, resource
\* and action the input supplied: nothing is missing and nothing was removed.
C27_ReadBackFailureLeavesAllCreated ==
    \A p \in Invs :
        FailedIn(p, {"getLinksByUuidOrAlias"}) =>
            /\ inv[p].pc = "rejected"
            /\ inv[p].result = NoLink
            /\ \A k \in 1..(Len(inv[p].outcomes) - 1) : inv[p].outcomes[k] = "ok"
            /\ \E k \in 1..Len(server) :
                   /\ server[k].uuid = inv[p].linkUuid
                   /\ server[k].request = PostLinksRequestOf(inv[p].options)
                   /\ server[k].toll = inv[p].options.toll
                   /\ server[k].resource = inv[p].options.resource
                   /\ server[k].actions = inv[p].options.actions.items

C27_Witness ==
    /\ FailedIn(1, {"getLinksByUuidOrAlias"})
    /\ server = <<[uuid |-> "u1", request |-> PostLinksRequestOf(inv[1].options),
                   toll |-> "toll1", resource |-> "res1", actions |-> <<"A", "B">>]>>

\* C28: failures of step 1 are wrapped as those of the later steps: a failed
\* link-creation call rejects with the message "Failed to create link: "
\* followed by the message of the error it failed with; a response without uuid
\* rejects with "Failed to create link: Failed to create link: no UUID
\* returned"; in both cases the link-creation call is the only call issued.
C28_StepOneFailuresWrapped ==
    \A p \in Invs :
        /\ FailedIn(p, {"postLinks"}) =>
               /\ Ops(p) = <<"postLinks">>
               /\ inv[p].error.isError
               /\ inv[p].caught.isError =>
                      inv[p].error.message =
                          "Failed to create link: " \o inv[p].caught.message
        /\ RejectedForMissingUuid(p) =>
               /\ Ops(p) = <<"postLinks">>
               /\ inv[p].error.isError
               /\ inv[p].error.message =
                      "Failed to create link: Failed to create link: no UUID returned"

C28_Witness ==
    /\ RejectedForMissingUuid(1)
    /\ inv[1].options.toll = "toll1"
    /\ inv[1].options.actions = Array(<<"B">>)
    /\ inv[1].error.message =
           "Failed to create link: Failed to create link: no UUID returned"
    /\ Len(updates) = 1

C30_HandlesShareCurrentConfiguration ==
    \A kind \in ApiKinds :
        /\ apiHeap[Handle(kind)].api = kind
        /\ apiHeap[Handle(kind)].configuration = configuration
        /\ cfgHeap[apiHeap[Handle(kind)].configuration] = getConfiguration
        /\ Credentials(Handle(kind)) = Credentials(links)

C30_Witness ==
    /\ Len(updates) = MaxUpdates
    /\ updates[1].op = "updateApiToken"
    /\ Last(updates).op = "updateBasePath"
    /\ configuration = Len(cfgHeap)
    /\ configuration > 1
    /\ apiHeap[networks].configuration = configuration
    /\ lastCall.via = "facade"
    /\ lastCall.handle = networks

\* ------------------------------------------------------ claims: termination
\* C31: provided every remote call eventually returns, as a success or as a
\* failure, every createLink invocation that was started eventually resolves
\* or rejects, and at no time has it issued more than 2 + [toll supplied] +
\* [resource supplied] + |actions| remote calls, also with a second invocation
\* and configuration updates interleaved with it.
C31_EveryInvocationSettles ==
    /\ [](\A p \in Invs :
              Len(inv[p].calls) <=
                  2 + Supplied(inv[p].options.toll) + Supplied(inv[p].options.resource)
                    + Len(inv[p].options.actions.items))
    /\ \A p \in Invs : Started(p) ~> Finished(p)

C31_Witness ==
    /\ inv[1].pc = "resolved"
    /\ Len(inv[1].calls) = 5
    /\ inv[2].pc = "rejected"
    /\ inv[1].calls[1].at < Last(inv[1].calls).at
    /\ Len(inv[2].calls) > 1
    /\ inv[2].calls[1].at < Last(inv[1].calls).at
    /\ Len(updates) = MaxUpdates

\* ------------------------------------------------- claims: the payment monitor
\* C32: a monitor issues at most maxPolls polling requests over its lifetime,
\* for every maxPolls >= 0 and also when the timer fires while earlier polls
\* are still unanswered.
C32_AtMostMaxPolls ==
    monitor.pollInterval # "none" => Len(monitor.callbacks) <= monitor.maxPolls

\* C33: over the lifetime of a monitor onPaymentFound is invoked at most once
\* per payment uuid, whatever the polls return and also with several callbacks
\* in flight at the same time.
C33_OncePerPayment ==
    /\ \A u \in PaymentUuids : monitor.found[u] <= 1
    /\ \A k, j \in 1..Len(monitor.callbacks) :
           \A a \in 1..Len(monitor.callbacks[k].newPayments) :
               \A b \in 1..Len(monitor.callbacks[j].newPayments) :
                   monitor.callbacks[k].newPayments[a] = monitor.callbacks[j].newPayments[b]
                       => (k = j /\ a = b)

C33_Witness ==
    /\ Len(monitor.callbacks) >= 2
    /\ monitor.callbacks[1].pc = "onPaymentFound"
    /\ monitor.callbacks[2].pc = "onPaymentFound"
    /\ monitor.callbacks[1].newPayments = <<"p2">>
    /\ monitor.callbacks[2].newPayments = <<"p1">>
    /\ monitor.found = [u \in PaymentUuids |-> 1]

\* callback k is over in this step
Ends(k) ==
    /\ k \in 1..Len(monitor.callbacks)
    /\ monitor.callbacks[k].pc # "done"
    /\ monitor'.callbacks[k].pc = "done"

\* C34: once the stop function has been called the timer is cleared and no
\* polling request is started any more; a callback that ends, after a
\* successful or a failed poll, with pollCount >= maxPolls clears the timer;
\* and when every poll and callback eventually ends, a monitor that polls
\* eventually has its timer cleared.
C34_MonitorStops ==
    /\ [](monitor.stopped => monitor.pollInterval = "cleared")
    /\ [][monitor.pollInterval = "cleared" =>
              /\ monitor'.pollInterval = "cleared"
              /\ Len(monitor'.callbacks) = Len(monitor.callbacks)]_vars
    /\ [][\A k \in 1..MaxTicks :
              (Ends(k) /\ monitor.pollCount >= monitor.maxPolls) =>
                  monitor'.pollInterval = "cleared"]_vars
    /\ (monitor.pollInterval = "set") ~> (monitor.pollInterval = "cleared")

C34_Witness ==
    /\ monitor.stopped
    /\ monitor.pollInterval = "cleared"
    /\ monitor.maxPolls = 2
    /\ monitor.pollCount = 1
    /\ monitor.callbacks[1].pc = "done"
    /\ monitor.errors = 1

\* C35: an exception of onPaymentFound for one payment does not end the
\* monitor and does not skip the other new payments of the poll: the loop goes
\* on to the next new payment, no onError is called and the timer is cleared
\* only at the end of the callback under pollCount >= maxPolls; the payment is
\* not delivered again. A failed polling request calls onError once, and the
\* callback then leaves the timer set as long as pollCount < maxPolls.
C35_CallbackErrorsContained ==
    /\ [](\A u \in monitor.threw : monitor.found[u] = 1)
    /\ [][\A k \in 1..Len(monitor.callbacks) :
              (monitor.callbacks[k].pc = "onPaymentFound"
                  /\ monitor'.callbacks[k] # monitor.callbacks[k]) =>
                  /\ monitor'.errors = monitor.errors
                  /\ IF monitor.callbacks[k].i < Len(monitor.callbacks[k].newPayments)
                     THEN /\ monitor'.callbacks[k] =
                                 [monitor.callbacks[k] EXCEPT !.i = @ + 1]
                          /\ monitor'.pollInterval = monitor.pollInterval
                     ELSE /\ monitor'.callbacks[k].pc = "done"
                          /\ monitor.pollCount < monitor.maxPolls =>
                                 monitor'.pollInterval = monitor.pollInterval]_vars
    /\ [][\A k \in 1..Len(monitor.callbacks) :
              /\ (monitor.callbacks[k].pc = "polling"
                     /\ monitor'.callbacks[k].pc \notin {"polling", "onPaymentFound", "done"}) =>
                     /\ monitor'.callbacks[k].pc = "onError"
                     /\ monitor'.errors = monitor.errors + 1
                     /\ monitor'.pollInterval = monitor.pollInterval
              /\ (monitor.callbacks[k].pc = "onError"
                     /\ monitor'.callbacks[k].pc # "onError") =>
                     /\ monitor'.callbacks[k].pc = "done"
                     /\ monitor.pollCount < monitor.maxPolls =>
                            monitor'.pollInterval = monitor.pollInterval]_vars

C35_Witness ==
    /\ monitor.pollInterval = "set"
    /\ monitor.errors = 1
    /\ monitor.callbacks[1].pc = "done"
    /\ Len(monitor.callbacks) = 2
    /\ monitor.callbacks[2].pc = "onPaymentFound"
    /\ monitor.callbacks[2].newPayments = <<"p1", "p2">>
    /\ monitor.callbacks[2].i = 2
    /\ monitor.threw = {"p1"}

====
